---- MODULE Spec2Model ----
(***************************************************************************)
(* A model of genCarrier.py, the generator of laser-cutter drawings for    *)
(* Beseler 23C negative carriers.                                          *)
(*                                                                         *)
(* Numbers.  The program computes in floating point.  Here a length is an  *)
(* integer number of 1/LenScale inch and an angle an integer number of     *)
(* 1/AngScale radian; sin, cos, asin and sqrt are computed in that fixed   *)
(* point, so two points that the program makes equal agree here up to Tol. *)
(* The per-segment angle of drawArc is kept as the exact fraction          *)
(* (theta1-theta0)/num_segments, as in real arithmetic.                    *)
(*                                                                         *)
(* Text.  A path string is modelled as the sequence of its commands        *)
(* [op, x, y]; a path element of a document is modelled by its comment and *)
(* the drawArc calls (or literal commands) that produce its d attribute,   *)
(* PathOf gives the command sequence.  A document is the sequence of its   *)
(* elements, header first and footer last.                                 *)
(***************************************************************************)
EXTENDS Integers, Sequences, FiniteSets, TLC

VARIABLES
  arc_in,    \* SpecArc: the arguments of the last drawArc call
  arc_out,   \* SpecArc: its outcome [raised, value]
  fmt_in,    \* SpecGeom: the arguments of the last shape call
  shape_out, \* SpecGeom: the shape it returned
  script,    \* Spec: the genCarrier calls the run makes, in order
  ci,        \* Spec: index in script of the call in progress
  pc,        \* Spec: the layer genCarrier generates next, "done" or "failed";
             \* SpecArc, SpecGeom: "call" before the call returns, then "returned"
  fs,        \* Spec: the file system, name -> content (Absent if no file)
  written,   \* Spec: the generators that returned, in order: [name, args, layer,
             \* doc, content], doc being the string s the generator built and
             \* content what its file held when it returned
  faults     \* Spec: how many generators returned after a flush that failed

vars == <<arc_in, arc_out, fmt_in, shape_out, script, ci, pc, fs, written, faults>>

-----------------------------------------------------------------------------
(* Fixed-point arithmetic                                                  *)

LenScale == 10^4
AngScale == 10^5
Tol == LenScale \div 2000

Abs(x) == IF x < 0 THEN -x ELSE x

\* a/b rounded to the nearest integer, b > 0
RoundDiv(a, b) == (2 * a + b) \div (2 * b)

\* a*b/AngScale for 0 <= a, b < 2*AngScale, without leaving 32 bits
MulS(a, b) == ((a \div 1000) * b) \div 100 + RoundDiv((a % 1000) * b, AngScale)

\* a/b as a fraction scaled by AngScale, 0 <= a <= b
Ratio(a, b) == ((a * 1000) \div b) * 100 + RoundDiv(((a * 1000) % b) * 100, b)

\* math.pi
Pi == 314159
TwoPi == 2 * Pi
HalfPi == RoundDiv(Pi, 2)

\* sin on [0, pi/2] by its Taylor series
SinSeries(y) ==
  LET y2 == MulS(y, y)
      t3 == MulS(y, y2) \div 6
      t5 == MulS(t3, y2) \div 20
      t7 == MulS(t5, y2) \div 42
      t9 == MulS(t7, y2) \div 72
      t11 == MulS(t9, y2) \div 110
      s == y - t3 + t5 - t7 + t9 - t11
  IN  IF s > AngScale THEN AngScale ELSE s

\* math.sin
Sin(x) ==
  LET y == ((x + Pi) % TwoPi) - Pi
      z == IF y > HalfPi THEN Pi - y ELSE IF y < -HalfPi THEN -Pi - y ELSE y
  IN  IF z < 0 THEN -SinSeries(-z) ELSE SinSeries(z)

\* math.cos
Cos(x) == Sin(x + HalfPi)

RECURSIVE AsinSearch(_, _, _)
AsinSearch(x, lo, hi) ==
  IF hi - lo <= 1
  THEN IF Abs(Sin(hi) - x) < Abs(Sin(lo) - x) THEN hi ELSE lo
  ELSE LET mid == (lo + hi) \div 2
       IN  IF Sin(mid) <= x THEN AsinSearch(x, mid, hi) ELSE AsinSearch(x, lo, mid)

\* math.asin, x a fraction scaled by AngScale
Asin(x) == AsinSearch(x, -HalfPi, HalfPi)

RECURSIVE SqrtSearch(_, _, _)
SqrtSearch(v, lo, hi) ==
  IF hi - lo <= 1
  THEN IF hi * hi - v < v - lo * lo THEN hi ELSE lo
  ELSE LET mid == (lo + hi) \div 2
       IN  IF mid * mid <= v THEN SqrtSearch(v, mid, hi) ELSE SqrtSearch(v, lo, mid)

\* math.sqrt of a length-scaled number, 0 <= x <= 20 inches
Sqrt(x) == SqrtSearch(x * LenScale, 0, 46340)

\* center + (cos theta, sin theta) * rad
PointAt(center, rad, theta) ==
  << center[1] + RoundDiv(RoundDiv(Cos(theta), 10) * rad, LenScale),
     center[2] + RoundDiv(RoundDiv(Sin(theta), 10) * rad, LenScale) >>

Near(p, q) == Abs(p[1] - q[1]) <= Tol /\ Abs(p[2] - q[2]) <= Tol

-----------------------------------------------------------------------------
(* Module constants, genCarrier.py lines 47-72                             *)

img_width == 86000
img_height == 65000
large_diam == 63750
large_rad == large_diam \div 2
handle_width == 11350
handle_length == 84500 - large_diam
ring_diam == 47250
handle_fillet == 7500
handle_rad == 1500
x_center == img_height \div 2
y_center == x_center

-----------------------------------------------------------------------------
(* drawArc                                                                 *)

\* num_segments = 1+int(abs(theta1-theta0)/dtheta), dtheta half a degree
num_segments_deg(theta0, theta1) == 1 + (Abs(theta1 - theta0) * 360) \div TwoPi
num_segments(theta0, theta1) == 1 + (Abs(theta1 - theta0) * 720) \div TwoPi

\* theta0 + k*dtheta with dtheta = (theta1-theta0)/num_segments
ThetaAt(theta0, theta1, k) ==
  theta0 + RoundDiv(k * (theta1 - theta0), num_segments(theta0, theta1))

\* The loop of drawArc: what each iteration appends, as [op, seg, theta]:
\* iteration i appends a move to theta_i when i = 0 and moveTo, then a line
\* to theta_i1.
drawArcLoop_short(theta0, theta1, moveTo) ==
  LET n == num_segments(theta0, theta1)
      line(i) == [op |-> "L", seg |-> i + 1, theta |-> ThetaAt(theta0, theta1, i + 1)]
      lines == [i \in 1..(n - 1) |-> line(i - 1)]
  IN  IF moveTo
      THEN <<[op |-> "M", seg |-> 0, theta |-> ThetaAt(theta0, theta1, 0)]>> \o lines
      ELSE lines

drawArcLoop(theta0, theta1, moveTo) ==
  LET n == num_segments(theta0, theta1)
      line(i) == [op |-> "L", seg |-> i + 1, theta |-> ThetaAt(theta0, theta1, i + 1)]
      lines == [i \in 1..n |-> line(i - 1)]
  IN  IF moveTo
      THEN <<[op |-> "M", seg |-> 0, theta |-> ThetaAt(theta0, theta1, 0)]>> \o lines
      ELSE lines

\* The path drawArc returns: " M%f,%f" and " L%f,%f" commands
drawArc(center, rad, theta0, theta1, moveTo) ==
  LET steps == drawArcLoop(theta0, theta1, moveTo)
  IN  [j \in 1..Len(steps) |->
         LET p == PointAt(center, rad, steps[j].theta)
         IN  [op |-> steps[j].op, x |-> p[1], y |-> p[2]]]

\* The outcome of a call of drawArc: it has no check of its arguments and
\* raises nothing.
drawArcCall(a) ==
  [raised |-> FALSE, value |-> drawArc(a.center, a.rad, a.theta0, a.theta1, a.moveTo)]

-----------------------------------------------------------------------------
(* Shapes.  A shape is one comment and one <path> element:                 *)
(* [comment, arcs, cmds, close], where d is the concatenation of the       *)
(* drawArc calls in arcs (or the literal commands cmds), followed by " z"  *)
(* when close.                                                             *)

Arc(center, rad, theta0, theta1, moveTo) ==
  [center |-> center, rad |-> rad, theta0 |-> theta0, theta1 |-> theta1,
   moveTo |-> moveTo]

\* a circle as every circle routine draws it: drawArc(p, r, 0, 2*math.pi, True)
Circle(center, rad) == Arc(center, rad, 0, TwoPi, TRUE)

RECURSIVE PathOfArcs(_)
PathOfArcs(arcs) ==
  IF arcs = <<>> THEN <<>>
  ELSE drawArc(Head(arcs).center, Head(arcs).rad, Head(arcs).theta0,
               Head(arcs).theta1, Head(arcs).moveTo) \o PathOfArcs(Tail(arcs))

\* the d attribute of a shape's path
PathOf(shape) ==
  (IF shape.arcs # <<>> THEN PathOfArcs(shape.arcs) ELSE shape.cmds)
    \o (IF shape.close THEN <<[op |-> "z", x |-> 0, y |-> 0]>> ELSE <<>>)

makeHeader == [comment |-> <<"svg", img_width, img_height, 0, 0, img_width, img_height>>]

makeFooter == [comment |-> <<"/svg">>]

\* len * t for t a sine or cosine
TrigMul(len, t) == RoundDiv(RoundDiv(t, 10) * len, LenScale)

handle_theta0 == Asin(Ratio(handle_width \div 2 + handle_fillet, large_rad + handle_fillet))
handle_theta1 == HalfPi - handle_theta0
fillet_dist == handle_fillet + large_rad
fillet_centerA == << TrigMul(fillet_dist, Cos(handle_theta0)) + x_center,
                     y_center - TrigMul(fillet_dist, Sin(handle_theta0)) >>
fillet_centerB == << TrigMul(fillet_dist, Cos(handle_theta0)) + x_center,
                     TrigMul(fillet_dist, Sin(handle_theta0)) + y_center >>
handle_end == handle_length + x_center + large_diam \div 2

\* The first value of handle_angle (math.tan, line 141) is overwritten on
\* line 154 before it is used, so handle_angle is handle_theta0.
makePaddleOutline ==
  [comment |-> <<"Paddle outline">>,
   arcs |-> <<
     Arc(<<x_center, y_center>>, large_diam \div 2, handle_theta0, TwoPi - handle_theta0, TRUE),
     Arc(fillet_centerA, handle_fillet, (3 * AngScale) \div 2 + handle_theta1, HalfPi, FALSE),
     Arc(<<handle_end - handle_rad, y_center - handle_width \div 2 + handle_rad>>,
         handle_rad, -HalfPi, 0, FALSE),
     Arc(<<handle_end - handle_rad, y_center + handle_width \div 2 - handle_rad>>,
         handle_rad, 0, HalfPi, FALSE),
     Arc(fillet_centerB, handle_fillet, RoundDiv(3 * Pi, 2), RoundDiv(3 * Pi, 2) - handle_theta1, FALSE) >>,
   cmds |-> <<>>,
   close |-> TRUE]

makePaddleSeparatorHoles ==
  LET R == RoundDiv((handle_width \div 2) * 6, 10)
  IN  [comment |-> <<"Paddle separator holes">>,
       arcs |-> <<
         Circle(<<x_center + large_rad + handle_length - handle_width \div 2, y_center>>, R),
         Circle(<<x_center - large_rad + RoundDiv(R * 12, 10), y_center>>, RoundDiv(R * 8, 10)) >>,
       cmds |-> <<>>,
       close |-> TRUE]

makeFilmCutout_uncentered(cut_width, cut_height, film_width, aligner_diam) ==
  LET cut_x == x_center - cut_height
      cut_y == y_center - cut_width
  IN  [comment |-> <<"Film cutout", cut_width, cut_height>>,
       arcs |-> <<>>,
       cmds |-> << [op |-> "M", x |-> cut_x, y |-> cut_y],
                   [op |-> "l", x |-> cut_height, y |-> 0],
                   [op |-> "l", x |-> 0, y |-> cut_width],
                   [op |-> "l", x |-> -cut_height, y |-> 0] >>,
       close |-> TRUE]

makeFilmCutout(cut_width, cut_height, film_width, aligner_diam) ==
  LET cut_x == x_center - RoundDiv(cut_height, 2)
      cut_y == y_center - RoundDiv(cut_width, 2)
  IN  [comment |-> <<"Film cutout", cut_width, cut_height>>,
       arcs |-> <<>>,
       cmds |-> << [op |-> "M", x |-> cut_x, y |-> cut_y],
                   [op |-> "l", x |-> cut_height, y |-> 0],
                   [op |-> "l", x |-> 0, y |-> cut_width],
                   [op |-> "l", x |-> -cut_height, y |-> 0] >>,
       close |-> TRUE]

\* scale is a length-scaled factor: LenScale is 1.0
makeAligners_scaledOffset(cut_width, cut_height, film_width, aligner_diam, scale) ==
  LET aligner_rad == RoundDiv(RoundDiv(aligner_diam, 2) * scale, LenScale)
      fw2 == RoundDiv(film_width, 2)
      cw2 == RoundDiv(cut_width, 2)
  IN  [comment |-> <<"Aligner pins", RoundDiv(aligner_diam * scale, LenScale)>>,
       arcs |-> <<
         Circle(<<x_center - fw2 - aligner_rad, y_center - cw2 + aligner_rad>>, aligner_rad),
         Circle(<<x_center + fw2 + aligner_rad, y_center - cw2 + aligner_rad>>, aligner_rad),
         Circle(<<x_center - fw2 - aligner_rad, y_center + cw2 - aligner_rad>>, aligner_rad),
         Circle(<<x_center + fw2 + aligner_rad, y_center + cw2 - aligner_rad>>, aligner_rad) >>,
       cmds |-> <<>>,
       close |-> FALSE]

makeAligners(cut_width, cut_height, film_width, aligner_diam, scale) ==
  LET aligner_rad == RoundDiv(aligner_diam, 2)
      fw2 == RoundDiv(film_width, 2)
      cw2 == RoundDiv(cut_width, 2)
      r == RoundDiv(aligner_rad * scale, LenScale)
  IN  [comment |-> <<"Aligner pins", RoundDiv(aligner_diam * scale, LenScale)>>,
       arcs |-> <<
         Circle(<<x_center - fw2 - aligner_rad, y_center - cw2 + aligner_rad>>, r),
         Circle(<<x_center + fw2 + aligner_rad, y_center - cw2 + aligner_rad>>, r),
         Circle(<<x_center - fw2 - aligner_rad, y_center + cw2 - aligner_rad>>, r),
         Circle(<<x_center + fw2 + aligner_rad, y_center + cw2 - aligner_rad>>, r) >>,
       cmds |-> <<>>,
       close |-> FALSE]

makeRing ==
  [comment |-> <<"Ring", ring_diam, ring_diam - LenScale>>,
   arcs |-> << Circle(<<x_center, y_center>>, RoundDiv(ring_diam, 2)),
               Circle(<<x_center, y_center>>, RoundDiv(ring_diam, 2) - LenScale \div 2) >>,
   cmds |-> <<>>,
   close |-> FALSE]

makeRingAligners ==
  LET off == RoundDiv(ring_diam, 2) - LenScale \div 4
      r == LenScale \div 8
  IN  [comment |-> <<"Ring alignment holes">>,
       arcs |-> << Circle(<<x_center, y_center - off>>, r),
                   Circle(<<x_center, y_center + off>>, r),
                   Circle(<<x_center - off, y_center>>, r),
                   Circle(<<x_center + off, y_center>>, r) >>,
       cmds |-> <<>>,
       close |-> FALSE]

makeExtraPins(pin_diam) ==
  LET off == RoundDiv((large_rad - (5 * LenScale) \div 8) * LenScale, Sqrt(2 * LenScale))
      r == RoundDiv(pin_diam, 2)
  IN  [comment |-> <<"Extra alignment pins">>,
       arcs |-> << Circle(<<x_center - off, y_center - off>>, r),
                   Circle(<<x_center - off, y_center + off>>, r),
                   Circle(<<x_center + off, y_center - off>>, r),
                   Circle(<<x_center + off, y_center + off>>, r) >>,
       cmds |-> <<>>,
       close |-> FALSE]

-----------------------------------------------------------------------------
(* Layers: the string s each generator builds, as the sequence of its      *)
(* elements.  f is the tuple of arguments of genCarrier.                   *)

genTopDoc(f) ==
  <<makeHeader, makePaddleOutline,
    makeFilmCutout(f.cut_width, f.cut_height, f.film_width, f.aligner_diam),
    makeAligners(f.cut_width, f.cut_height, f.film_width, f.aligner_diam, LenScale)>>
  \o (IF f.extra_pins THEN <<makeExtraPins((3 * LenScale) \div 4)>> ELSE <<>>)
  \o <<makeFooter>>

genBottomDoc_noHoles(f) ==
  <<makeHeader, makePaddleOutline,
    makeFilmCutout(f.cut_width, f.cut_height, f.film_width, f.aligner_diam),
    makeAligners(f.cut_width, f.cut_height, f.film_width, f.aligner_diam, LenScale \div 2)>>
  \o (IF f.extra_pins THEN <<makeExtraPins((3 * LenScale) \div 8)>> ELSE <<>>)
  \o <<makeRingAligners, makeFooter>>

genBottomDoc(f) ==
  <<makeHeader, makePaddleOutline, makePaddleSeparatorHoles,
    makeFilmCutout(f.cut_width, f.cut_height, f.film_width, f.aligner_diam),
    makeAligners(f.cut_width, f.cut_height, f.film_width, f.aligner_diam, LenScale \div 2)>>
  \o (IF f.extra_pins THEN <<makeExtraPins((3 * LenScale) \div 8)>> ELSE <<>>)
  \o <<makeRingAligners, makeFooter>>

genRingDoc(f) == <<makeHeader, makeRing, makeRingAligners, makeFooter>>

genAllDoc(f) ==
  <<makeHeader, makePaddleOutline, makePaddleSeparatorHoles,
    makeFilmCutout(f.cut_width, f.cut_height, f.film_width, f.aligner_diam),
    makeAligners(f.cut_width, f.cut_height, f.film_width, f.aligner_diam, LenScale),
    makeAligners(f.cut_width, f.cut_height, f.film_width, f.aligner_diam, LenScale \div 2)>>
  \o (IF f.extra_pins
      THEN <<makeExtraPins((3 * LenScale) \div 4), makeExtraPins((3 * LenScale) \div 8)>>
      ELSE <<>>)
  \o <<makeRing, makeRingAligners, makeFooter>>

-----------------------------------------------------------------------------
(* The run: __main__ and genCarrier                                        *)

MaxCalls == 2
MaxFaults == 1

\* the calls of __main__, lines 413, 416 and 419
Fmt35mm == [name |-> "23C_35mm", cut_width |-> 14250, cut_height |-> 9450,
            film_width |-> 13780 + 100, aligner_diam |-> 5000, extra_pins |-> TRUE]
Fmt6x7 == [name |-> "23C_120_6x7cm", cut_width |-> 26750, cut_height |-> 22000,
           film_width |-> 24250 + 100, aligner_diam |-> 7500, extra_pins |-> FALSE]
Fmt6x6 == [name |-> "23C_120_6x6cm", cut_width |-> 22000, cut_height |-> 22000,
           film_width |-> 24250 + 100, aligner_diam |-> 7500, extra_pins |-> FALSE]
MainScript == <<Fmt35mm, Fmt6x7, Fmt6x6>>
Formats == {Fmt35mm, Fmt6x7, Fmt6x6}
\* the format of the runs other than __main__, which repeat the first call
CallFormats == {Fmt35mm}

Layers == <<"top", "bottom", "ring", "all">>

\* "%s_top.svg" % name and the like
FileName(name, layer) == <<name, "_", layer, ".svg">>

Names == {FileName(f.name, Layers[i]) : f \in Formats, i \in 1..4}

\* A file: absent, or its content, a sequence of document elements
Absent == [exists |-> FALSE, data |-> <<>>]
File(data) == [exists |-> TRUE, data |-> data]
\* what a file may hold before the run
OldFile == File(<<[comment |-> <<"left by another program">>]>>)

\* open(name, "w") followed by fh.write(s): what the file holds when the
\* first k elements of s have reached it
writeFile(files, name, s, k) == [files EXCEPT ![name] = File(SubSeq(s, 1, k))]

\* where genCarrier and __main__ go after a layer is written
NextPc_skipBottom(layer) ==
  CASE layer = "top" -> "ring"
    [] layer = "bottom" -> "ring"
    [] layer = "ring" -> "all"
    [] layer = "all" -> IF ci < Len(script) THEN "top" ELSE "done"

NextPc(layer) ==
  CASE layer = "top" -> "bottom"
    [] layer = "bottom" -> "ring"
    [] layer = "ring" -> "all"
    [] layer = "all" -> IF ci < Len(script) THEN "top" ELSE "done"

\* The last two statements of a generator, fh = open(name, "w") and
\* fh.write(s), and its return, where fh is dropped without a close.  The
\* outcomes the operating system allows:
\*  - all of s reaches the file and the generator returns;
\*  - open raises: the file is untouched and the exception ends the run;
\*  - open has truncated the file and fh.write raises after k elements have
\*    reached the file: the exception ends the run;
\*  - fh.write returns with s, or the end of s, still in the buffer of fh
\*    (the buffer has the block size of the file system, which can exceed
\*    the document), and the flush made when fh is dropped fails after k
\*    elements have reached the file: that error is discarded and the
\*    generator returns normally, leaving any proper prefix of s, the empty
\*    one included.
Returned(layer, s, k) ==
  LET name == FileName(script[ci].name, layer)
  IN  /\ fs' = writeFile(fs, name, s, k)
      /\ written' = Append(written, [name |-> name, args |-> script[ci], layer |-> layer,
                                     doc |-> s, content |-> fs'[name].data])
      /\ pc' = NextPc(layer)
      /\ ci' = IF layer = "all" /\ ci < Len(script) THEN ci + 1 ELSE ci

WriteLayer(layer, s) ==
  LET name == FileName(script[ci].name, layer)
  IN  /\ pc = layer
      /\ \/ /\ Returned(layer, s, Len(s))
            /\ UNCHANGED faults
         \/ /\ pc' = "failed"
            /\ UNCHANGED <<fs, written, ci, faults>>
         \/ /\ \E k \in 0..(Len(s) - 1) : fs' = writeFile(fs, name, s, k)
            /\ pc' = "failed"
            /\ UNCHANGED <<written, ci, faults>>
         \/ /\ faults < MaxFaults
            /\ \E k \in 0..(Len(s) - 1) : Returned(layer, s, k)
            /\ faults' = faults + 1
      /\ UNCHANGED <<arc_in, arc_out, fmt_in, shape_out, script>>

genTop == WriteLayer("top", genTopDoc(script[ci]))
genBottom == WriteLayer("bottom", genBottomDoc(script[ci]))
genRing == WriteLayer("ring", genRingDoc(script[ci]))
genAll == WriteLayer("all", genAllDoc(script[ci]))

genCarrier == genTop \/ genBottom \/ genRing \/ genAll

RECURSIVE SeqsUpTo(_, _)
SeqsUpTo(S, n) ==
  IF n = 0 THEN {<<>>}
  ELSE LET shorter == SeqsUpTo(S, n - 1)
       IN  shorter \cup {Append(q, x) : q \in shorter, x \in S}

NoArc == [center |-> <<0, 0>>, rad |-> 0, theta0 |-> 0, theta1 |-> 0, moveTo |-> FALSE]
NoOutcome == [raised |-> FALSE, value |-> <<>>]
NoCall == [fn |-> "none"]
NoShape == [comment |-> <<>>, arcs |-> <<>>, cmds |-> <<>>, close |-> FALSE]

\* A run is the run of __main__ (MainScript) or makes up to MaxCalls calls
\* of genCarrier; the destination files are all absent or all left by an
\* earlier program.
Init ==
  /\ script \in (SeqsUpTo(CallFormats, MaxCalls) \ {<<>>}) \cup {MainScript}
  /\ ci = 1
  /\ pc = "top"
  /\ fs \in {[n \in Names |-> Absent], [n \in Names |-> OldFile]}
  /\ written = <<>>
  /\ faults = 0
  /\ arc_in = NoArc
  /\ arc_out = NoOutcome
  /\ fmt_in = NoCall
  /\ shape_out = NoShape

Next == genTop \/ genBottom \/ genRing \/ genAll

Spec == Init /\ [][Next]_vars

-----------------------------------------------------------------------------
(* drawArc on its own                                                      *)

MaxArcK == 5

\* about a quarter of a degree
ArcGrain == RoundDiv(TwoPi, 1440)
ArcAngles == {k * ArcGrain : k \in (-MaxArcK)..MaxArcK}
ArcRads == {-LenScale, 0, LenScale \div 8, LenScale}
ArcCenters == {<<0, 0>>, <<x_center, y_center>>}

Idle ==
  /\ script = <<>>
  /\ ci = 0
  /\ fs = <<>>
  /\ written = <<>>
  /\ faults = 0

\* the arguments of a call drawArc(center, rad, theta0, theta1, moveTo): any
\* of the small arcs, or a circle as the circle routines ask for it
InitArc ==
  /\ arc_in \in {Arc(c, r, t0, t1, m) : c \in ArcCenters, r \in ArcRads,
                    t0 \in ArcAngles, t1 \in ArcAngles, m \in BOOLEAN}
                \cup {Circle(c, r) : c \in ArcCenters, r \in ArcRads}
  /\ arc_out = NoOutcome
  /\ pc = "call"
  /\ fmt_in = NoCall
  /\ shape_out = NoShape
  /\ Idle

\* the call returns
DrawArcStep ==
  /\ pc = "call"
  /\ arc_out' = drawArcCall(arc_in)
  /\ pc' = "returned"
  /\ UNCHANGED <<arc_in, fmt_in, shape_out, script, ci, fs, written, faults>>

NextArc == DrawArcStep

SpecArc == InitArc /\ [][NextArc]_vars

-----------------------------------------------------------------------------
(* The shape routines on their own                                         *)

CutWidths == {14250, 22000, 26750}
CutHeights == {9450, 14250, 22000}
FilmWidths == {13880, 24350}
AlignerDiams == {5000, 7500}
Scales == {LenScale, LenScale \div 2}
PinDiams == {(3 * LenScale) \div 4, (3 * LenScale) \div 8}

CutoutCalls ==
  {[fn |-> "makeFilmCutout", cut_width |-> cw, cut_height |-> ch,
    film_width |-> fw, aligner_diam |-> ad] :
     cw \in CutWidths, ch \in CutHeights, fw \in FilmWidths, ad \in AlignerDiams}

AlignerCalls ==
  {[fn |-> "makeAligners", cut_width |-> cw, cut_height |-> ch,
    film_width |-> fw, aligner_diam |-> ad, scale |-> sc] :
     cw \in CutWidths, ch \in CutHeights, fw \in FilmWidths, ad \in AlignerDiams,
     sc \in Scales}

\* one call of one shape routine
InitGeom ==
  /\ fmt_in \in CutoutCalls \cup AlignerCalls
                \cup {[fn |-> "makeExtraPins", pin_diam |-> d] : d \in PinDiams}
                \cup {[fn |-> g] : g \in {"makePaddleOutline", "makePaddleSeparatorHoles",
                                          "makeRing", "makeRingAligners"}}
  /\ shape_out = NoShape
  /\ pc = "call"
  /\ arc_in = NoArc
  /\ arc_out = NoOutcome
  /\ Idle

Return(fn, shape) ==
  /\ pc = "call"
  /\ fmt_in.fn = fn
  /\ shape_out' = shape
  /\ pc' = "returned"
  /\ UNCHANGED <<arc_in, arc_out, fmt_in, script, ci, fs, written, faults>>

MakePaddleOutlineStep == Return("makePaddleOutline", makePaddleOutline)

MakePaddleSeparatorHolesStep == Return("makePaddleSeparatorHoles", makePaddleSeparatorHoles)

MakeFilmCutoutStep ==
  Return("makeFilmCutout",
         makeFilmCutout(fmt_in.cut_width, fmt_in.cut_height, fmt_in.film_width,
                        fmt_in.aligner_diam))

MakeAlignersStep ==
  Return("makeAligners",
         makeAligners(fmt_in.cut_width, fmt_in.cut_height, fmt_in.film_width,
                      fmt_in.aligner_diam, fmt_in.scale))

MakeRingStep == Return("makeRing", makeRing)

MakeRingAlignersStep == Return("makeRingAligners", makeRingAligners)

MakeExtraPinsStep == Return("makeExtraPins", makeExtraPins(fmt_in.pin_diam))

NextGeom ==
  \/ MakePaddleOutlineStep
  \/ MakePaddleSeparatorHolesStep
  \/ MakeFilmCutoutStep
  \/ MakeAlignersStep
  \/ MakeRingStep
  \/ MakeRingAlignersStep
  \/ MakeExtraPinsStep

SpecGeom == InitGeom /\ [][NextGeom]_vars

-----------------------------------------------------------------------------
(* Properties                                                              *)

Range(q) == {q[i] : i \in DOMAIN q}

\* what a shape of a document is: its comment's name, and for the pin sets
\* the radius of the circles
Tag(el) ==
  IF el.comment[1] \in {"Aligner pins", "Extra alignment pins"}
  THEN <<el.comment[1], el.arcs[1].rad>>
  ELSE <<el.comment[1], 0>>

Tags(doc) == [i \in DOMAIN doc |-> Tag(doc[i])]

ExpectedTags(layer, f) ==
  LET pins(r) == IF f.extra_pins THEN <<<<"Extra alignment pins", r>>>> ELSE <<>>
      al(r) == <<"Aligner pins", r>>
      full == f.aligner_diam \div 2
  IN  <<<<"svg", 0>>>> \o
      (CASE layer = "top" ->
              <<<<"Paddle outline", 0>>, <<"Film cutout", 0>>, al(full)>> \o pins(3750)
         [] layer = "bottom" ->
              <<<<"Paddle outline", 0>>, <<"Paddle separator holes", 0>>,
                <<"Film cutout", 0>>, al(full \div 2)>> \o pins(1875)
              \o <<<<"Ring alignment holes", 0>>>>
         [] layer = "ring" -> <<<<"Ring", 0>>, <<"Ring alignment holes", 0>>>>
         [] layer = "all" ->
              <<<<"Paddle outline", 0>>, <<"Paddle separator holes", 0>>,
                <<"Film cutout", 0>>, al(full), al(full \div 2)>>
              \o pins(3750) \o pins(1875)
              \o <<<<"Ring", 0>>, <<"Ring alignment holes", 0>>>>)
      \o <<<<"/svg", 0>>>>

\* C1: every document a generator has written holds, between header and
\* footer, exactly the shapes of its layer in the stated order: top = outline,
\* cutout, full-size aligners, 0.75 extra pins if asked for; bottom = outline,
\* separator holes, cutout, half-size aligners, 0.375 extra pins if asked for,
\* ring aligners; ring = ring, ring aligners; all = outline, separator holes,
\* cutout, both aligner sets, both extra pin sets if asked for, ring, ring
\* aligners.
C1_LayerShapes ==
  \A i \in DOMAIN written :
    Tags(written[i].doc) = ExpectedTags(written[i].layer, written[i].args)

C1_Witness ==
  /\ \E i \in DOMAIN written : written[i].layer = "all" /\ written[i].args.extra_pins
  /\ \E i \in DOMAIN written : written[i].layer = "all" /\ ~written[i].args.extra_pins
  /\ \E i \in DOMAIN written : written[i].layer = "bottom" /\ written[i].args.extra_pins

\* the files the run has touched so far can only be those of the calls begun
TouchedNames == {n \in DOMAIN fs : fs[n] # Absent /\ fs[n] # OldFile}

\* C2: the k-th call of genCarrier writes, in this order, name_top.svg,
\* name_bottom.svg, name_ring.svg and name_all.svg, one document each, and no
\* other file is touched; when the run of __main__ is done, every (format,
\* layer) pair was written exactly once.
C2_FourFilesInOrder ==
  /\ \A i \in DOMAIN written :
       LET call == ((i - 1) \div 4) + 1
           layer == Layers[((i - 1) % 4) + 1]
       IN  /\ call <= ci
           /\ written[i].args = script[call]
           /\ written[i].layer = layer
           /\ written[i].name = <<script[call].name, "_", layer, ".svg">>
  /\ pc = "done" => Len(written) = 4 * Len(script)
  /\ TouchedNames \subseteq
       {<<script[c].name, "_", l, ".svg">> : c \in 1..ci, l \in Range(Layers)}
  /\ (script = MainScript /\ pc = "done") =>
       \A f \in Formats : \A l \in Range(Layers) :
         Cardinality({i \in DOMAIN written :
                        written[i].args = f /\ written[i].layer = l}) = 1

C2_Witness == script = MainScript /\ pc = "done" /\ Len(written) = 12

\* C3: drawArc rejects invalid geometry: for a radius that is zero or
\* negative, or an empty angle range, the call raises and returns no path.
C3_InvalidInputsRejected ==
  (pc = "returned" /\ (arc_in.rad <= 0 \/ arc_in.theta0 = arc_in.theta1))
    => (arc_out.raised /\ arc_out.value = <<>>)

IsCompleteDocument(data) ==
  /\ Len(data) >= 2
  /\ data[1] = makeHeader
  /\ data[Len(data)] = makeFooter

\* C4: wherever generation stops, every destination holds a complete
\* document (header, shapes, footer) or is as it was before the run.
C4_NoPartialDocument ==
  \A n \in DOMAIN fs :
    fs[n] = Absent \/ fs[n] = OldFile \/ IsCompleteDocument(fs[n].data)

\* C5: two calls of genCarrier with the same arguments, whatever was called
\* in between and whatever the files held before, write the same file names
\* and leave each file with the same content: any two generators that
\* returned for the same arguments and layer left the same file content.
C5_Idempotent ==
  \A i, j \in DOMAIN written :
    (written[i].args = written[j].args /\ written[i].layer = written[j].layer)
      => /\ written[i].name = written[j].name
         /\ written[i].content = written[j].content

\* C6: drawArc emits a move to the point at theta0 only when moveTo, then
\* one line per segment, to the points at theta0 + k*dtheta for k = 1, 2, ...,
\* num_segments in this order; the last one is the point at theta1, and
\* nothing follows it: no closing command, no second line to the end point.
C6_ArcPoints ==
  pc = "returned" =>
    LET out == arc_out.value
        n == num_segments(arc_in.theta0, arc_in.theta1)
        off == IF arc_in.moveTo THEN 1 ELSE 0
        at(theta) == PointAt(arc_in.center, arc_in.rad, theta)
    IN  /\ Len(out) = n + off
        /\ arc_in.moveTo =>
             /\ out[1].op = "M"
             /\ <<out[1].x, out[1].y>> = at(arc_in.theta0)
        /\ \A k \in 1..n :
             /\ out[k + off].op = "L"
             /\ <<out[k + off].x, out[k + off].y>>
                  = at(ThetaAt(arc_in.theta0, arc_in.theta1, k))
        /\ <<out[Len(out)].x, out[Len(out)].y>> = at(arc_in.theta1)

C6_Witness ==
  /\ pc = "returned"
  /\ ~arc_in.moveTo
  /\ arc_in.theta1 < arc_in.theta0
  /\ Len(arc_out.value) >= 4
  /\ arc_in.rad > 0

Lines(path) == {j \in DOMAIN path : path[j].op = "L"}

\* C7: the number of segments drawArc draws is 1 + floor(|theta1 - theta0| /
\* half a degree), at least 1 also when theta0 = theta1; the angle of one
\* segment, (theta1 - theta0)/num_segments, is at most half a degree, the
\* k-th point is k such angles after theta0 and the last one is at theta1.
C7_SegmentCount ==
  pc = "returned" =>
    LET n == Cardinality(Lines(arc_out.value))
        d == arc_in.theta1 - arc_in.theta0
        steps == drawArcLoop(arc_in.theta0, arc_in.theta1, FALSE)
    IN  /\ n = 1 + (Abs(d) * 720) \div TwoPi
        /\ n >= 1
        /\ Abs(d) * 720 <= TwoPi * n
        /\ Len(steps) = n
        /\ \A k \in 1..n : 2 * Abs(n * (steps[k].theta - arc_in.theta0) - k * d) <= n
        /\ steps[n].theta = arc_in.theta1

C7_Witness ==
  /\ pc = "returned"
  /\ arc_in.theta0 = arc_in.theta1
  /\ arc_in.moveTo
  /\ Len(arc_out.value) = 2

StartPt(a) == PointAt(a.center, a.rad, a.theta0)
EndPt(a) == PointAt(a.center, a.rad, a.theta1)

\* both points on one straight edge of the handle: its two sides and its end
OnHandleEdge(p, q) ==
  \/ Abs(p[2] - (y_center - handle_width \div 2)) <= Tol
       /\ Abs(q[2] - (y_center - handle_width \div 2)) <= Tol
  \/ Abs(p[2] - (y_center + handle_width \div 2)) <= Tol
       /\ Abs(q[2] - (y_center + handle_width \div 2)) <= Tol
  \/ Abs(p[1] - handle_end) <= Tol /\ Abs(q[1] - handle_end) <= Tol

\* C8: the paddle outline is continuous: fillet A starts where the large
\* arc ends, each later fragment starts where the one before ends or on the
\* same straight handle edge, fillet B ends where the large arc starts, and
\* the path is closed.
C8_OutlineContinuous ==
  (pc = "returned" /\ fmt_in.fn = "makePaddleOutline") =>
    LET a == shape_out.arcs
    IN  /\ Len(a) = 5
        /\ shape_out.close
        /\ Near(StartPt(a[2]), EndPt(a[1]))
        /\ \A i \in 3..5 :
             Near(StartPt(a[i]), EndPt(a[i - 1])) \/ OnHandleEdge(StartPt(a[i]), EndPt(a[i - 1]))
        /\ Near(EndPt(a[5]), StartPt(a[1]))

Centers(shape) == [i \in DOMAIN shape.arcs |-> shape.arcs[i].center]

\* C9: makeAligners draws four full circles in one path without a closing
\* command, each with its own move; their centers do not depend on scale and
\* their radius is aligner_diam/2 * scale.
C9_AlignersScale ==
  (pc = "returned" /\ fmt_in.fn = "makeAligners") =>
    LET a == shape_out.arcs
        dx == RoundDiv(fmt_in.film_width, 2) + RoundDiv(fmt_in.aligner_diam, 2)
        dy == RoundDiv(fmt_in.cut_width, 2) - RoundDiv(fmt_in.aligner_diam, 2)
    IN  /\ Len(a) = 4
        /\ ~shape_out.close
        /\ shape_out.cmds = <<>>
        /\ \A i \in 1..4 :
             /\ a[i].theta0 = 0 /\ a[i].theta1 = TwoPi /\ a[i].moveTo
             /\ a[i].rad = RoundDiv(RoundDiv(fmt_in.aligner_diam, 2) * fmt_in.scale, LenScale)
        /\ Centers(shape_out) =
             << <<x_center - dx, y_center - dy>>, <<x_center + dx, y_center - dy>>,
                <<x_center - dx, y_center + dy>>, <<x_center + dx, y_center + dy>> >>
        /\ \A sc \in Scales :
             Centers(makeAligners(fmt_in.cut_width, fmt_in.cut_height, fmt_in.film_width,
                                  fmt_in.aligner_diam, sc)) = Centers(shape_out)

C9_Witness ==
  /\ pc = "returned"
  /\ fmt_in.fn = "makeAligners"
  /\ fmt_in.scale = LenScale \div 2
  /\ shape_out.arcs[1].rad = fmt_in.aligner_diam \div 4

\* the points a path of "M" and relative "l" commands visits
RECURSIVE Visited(_, _)
Visited(cmds, cur) ==
  IF cmds = <<>> THEN <<>>
  ELSE LET c == Head(cmds)
           p == IF c.op = "M" THEN <<c.x, c.y>> ELSE <<cur[1] + c.x, cur[2] + c.y>>
       IN  <<p>> \o Visited(Tail(cmds), p)

Rectangle(x0, y0, w, h) == {<<x0, y0>>, <<x0 + w, y0>>, <<x0 + w, y0 + h>>, <<x0, y0 + h>>}

IsClosedFourCorner(shape) ==
  /\ shape.close
  /\ shape.arcs = <<>>
  /\ Len(shape.cmds) = 4
  /\ shape.cmds[1].op = "M"
  /\ \A i \in 2..4 : shape.cmds[i].op = "l"

\* C10 as claimed: the film cutout is one closed rectangle centered at the
\* format center, cut_width wide and cut_height high.
C10_CutoutWidthHorizontal ==
  (pc = "returned" /\ fmt_in.fn = "makeFilmCutout") =>
    /\ IsClosedFourCorner(shape_out)
    /\ Range(Visited(shape_out.cmds, <<0, 0>>)) =
         Rectangle(x_center - RoundDiv(fmt_in.cut_width, 2),
                   y_center - RoundDiv(fmt_in.cut_height, 2),
                   fmt_in.cut_width, fmt_in.cut_height)

\* C10 amended: the film cutout is one closed rectangle centered at the
\* format center whose horizontal extent is cut_height and whose vertical
\* extent is cut_width: corners (x_center +/- cut_height/2, y_center +/-
\* cut_width/2); the last corner is straight above the first, so that closing
\* the path draws the fourth side.
C10_CutoutHeightHorizontal ==
  (pc = "returned" /\ fmt_in.fn = "makeFilmCutout") =>
    LET pts == Visited(shape_out.cmds, <<0, 0>>)
    IN  /\ IsClosedFourCorner(shape_out)
        /\ Range(pts) =
             Rectangle(x_center - RoundDiv(fmt_in.cut_height, 2),
                       y_center - RoundDiv(fmt_in.cut_width, 2),
                       fmt_in.cut_height, fmt_in.cut_width)
        /\ Cardinality(Range(pts)) = 4
        /\ pts[4][1] = pts[1][1]

C10_Witness ==
  /\ pc = "returned"
  /\ fmt_in.fn = "makeFilmCutout"
  /\ fmt_in.cut_width > fmt_in.cut_height
  /\ shape_out.cmds[2].x = fmt_in.cut_height

====
